---- MODULE Spec2Model ----
(***************************************************************************)
(* The create-workflow command of digit-cli (cmd/createWorkflow.go) and    *)
(* the workflow functions of the digit client library it calls             *)
(* (CreateProcess, CreateState, CreateAction).                             *)
(*                                                                         *)
(* One behaviour is one run of createWorkflowCmd.RunE from "Step 1" on:    *)
(* the flags have been validated, serverURL and jwtToken are non-empty,    *)
(* ExtractTenantID has returned a non-empty tenantID and the YAML has been *)
(* parsed into workflowDef.  The remote workflow service is the            *)
(* environment: it answers every request with a transport error or with a *)
(* status and a body of its choosing.                                      *)
(***************************************************************************)
EXTENDS Naturals, Sequences, FiniteSets

VARIABLES
    states,         \* workflowDef.Workflow.States: the state codes, in order
    actions,        \* workflowDef.Workflow.Actions: [currentState, nextState]
    pc,             \* position of RunE
    processID,      \* processID (createWorkflow.go:452)
    stateCodeToID,  \* stateCodeToID (createWorkflow.go:461)
    si,             \* iterations of the states loop completed
    ai,             \* iterations of the actions loop completed
    calls,          \* the HTTP requests sent so far, in order
    answers,        \* what came back for them, in order
    created,        \* indices of the requests the server has applied
    err,            \* the error RunE returned
    result          \* the summary RunE printed

\* The token layer (pkg/jwt, pkg/auth, pkg/config, pkg/api) has its own
\* state; a run of create-workflow leaves it alone.
VARIABLES
    token,          \* pkg/jwt: the token string a function is applied to
    clock,          \* pkg/jwt: time.Now() when it is applied, in seconds
    fn,             \* pkg/jwt: the function applied, "" before
    out,            \* pkg/jwt: what it returned
    file,           \* ~/.digit/config.yaml as config.Load reads it
    now,            \* time.Now(), in seconds
    last,           \* the command or call that ran last, and how it ended
    lastAuth,       \* what the last explicit authentication stored
    ops             \* commands run so far

\* Two invocations of the CLI running at once on the same configuration
\* file: each one's position and the Config it holds in memory.
VARIABLES
    procs

wfVars == <<states, actions, pc, processID, stateCodeToID, si, ai,
            calls, answers, created, err, result>>

jwtVars == <<token, clock, fn, out>>

authVars == <<file, now, last, lastAuth, ops>>

raceVars == <<procs>>

vars == <<wfVars, jwtVars, authVars, raceVars>>

JWTIdle == token = <<>> /\ clock = 0 /\ fn = "" /\ out = <<>>

AuthIdle == file = <<>> /\ now = 0 /\ last = <<>> /\ lastAuth = <<>> /\ ops = 0

RaceIdle == procs = <<>>

----------------------------------------------------------------------------
(* Bounds of the model *)

MaxStates == 2

MaxActions == 2

Codes == {"A", "B"}

Ids == {"", "u1", "u2"}

SeqsUpTo(S, n) == UNION {[1..k -> S] : k \in 0..n}

ActionDefs == [currentState : Codes, nextState : Codes]

----------------------------------------------------------------------------
(* The remote service's answers *)

NoBody == [valid |-> FALSE, hasID |-> FALSE, id |-> ""]

\* The bodies a 2xx response may carry: unparseable, JSON without a string
\* "id", JSON with one.  RunE never reads the body of an action response,
\* so two bodies stand for all of them there.
Bodies(kind) ==
    IF kind = "action"
    THEN {NoBody, [valid |-> TRUE, hasID |-> TRUE, id |-> "u1"]}
    ELSE {NoBody, [valid |-> TRUE, hasID |-> FALSE, id |-> ""]}
            \cup {[valid |-> TRUE, hasID |-> TRUE, id |-> x] : x \in Ids}

\* client.Do fails, or it returns a response with a status and a body
Responses(kind) ==
    {[transport |-> TRUE, status |-> 0, body |-> NoBody]}
        \cup {[transport |-> FALSE, status |-> s, body |-> NoBody] : s \in {199, 300}}
        \cup {[transport |-> FALSE, status |-> 200, body |-> b] : b \in Bodies(kind)}

----------------------------------------------------------------------------
(* The client library: what CreateProcess / CreateState / CreateAction     *)
(* return for a response                                                   *)

StatusOK(status) == ~(status < 200 \/ status >= 300)

\* Mutant: the status of the response is not checked.
LibReturnNoStatusCheck(resp) ==
    IF resp.transport THEN [ok |-> FALSE, body |-> NoBody]
    ELSE [ok |-> TRUE, body |-> resp.body]

LibReturn(resp) ==
    IF resp.transport THEN [ok |-> FALSE, body |-> NoBody]
    ELSE IF ~StatusOK(resp.status) THEN [ok |-> FALSE, body |-> NoBody]
    ELSE [ok |-> TRUE, body |-> resp.body]

Request(kind, entry, path, payload) ==
    [method |-> "POST", kind |-> kind, entry |-> entry,
     path |-> path, payload |-> payload]

----------------------------------------------------------------------------
(* createWorkflowCmd.RunE: helpers *)

NoErr == [step |-> "", cause |-> "", name |-> "", entry |-> 0]

Err(step, cause, name, entry) ==
    [step |-> step, cause |-> cause, name |-> name, entry |-> entry]

NoResult == [processID |-> "", states |-> 0, actions |-> 0]

\* Mutant: the identifier is formatted with %v instead of asserted to be a
\* string, so a missing one becomes the text "<nil>".
ExtractIDSprint(body) ==
    [parsed |-> body.valid,
     ok     |-> body.valid,
     id     |-> IF body.valid /\ body.hasID THEN body.id ELSE "<nil>"]

\* json.Unmarshal into a map, then result["id"].(string)
ExtractID(body) ==
    [parsed |-> body.valid,
     ok     |-> body.valid /\ body.hasID,
     id     |-> IF body.valid /\ body.hasID THEN body.id ELSE ""]

\* Mutant: the map is read without the comma-ok form, a missing code
\* yielding the zero value.
LookupZero(m, code) ==
    IF code \in DOMAIN m
    THEN [id |-> m[code], exists |-> TRUE]
    ELSE [id |-> "", exists |-> TRUE]

\* id, exists := stateCodeToID[code]
Lookup(m, code) ==
    IF code \in DOMAIN m
    THEN [id |-> m[code], exists |-> TRUE]
    ELSE [id |-> "", exists |-> FALSE]

\* Mutant: the states are walked from the last to the first.
RangeStatesReversed(k) ==
    [entry |-> Len(states) + 1 - k, code |-> states[Len(states) + 1 - k]]

\* for _, state := range workflowDef.Workflow.States, k-th iteration
RangeStates(k) == [entry |-> k, code |-> states[k]]

\* for _, action := range workflowDef.Workflow.Actions, k-th iteration
RangeActions(k) == [entry |-> k, action |-> actions[k]]

\* Mutant: the states loop stops one entry short.
StatesLoopDoneEarly == si + 1 >= Len(states)

\* the range over the states is exhausted
StatesLoopDone == si = Len(states)

\* Mutant: the two identifiers are passed in the wrong order.
ActionRequestSwapped(entry, currentStateID, nextStateID) ==
    Request("action", entry, nextStateID, currentStateID)

\* the request digit.CreateAction builds from RunE's arguments
ActionRequest(entry, currentStateID, nextStateID) ==
    Request("action", entry, currentStateID, nextStateID)

\* Mutant: the number of states is taken from the map.
SummaryFromMap ==
    [processID |-> processID,
     states    |-> Cardinality(DOMAIN stateCodeToID),
     actions   |-> Len(actions)]

\* the summary printed on success
Summary ==
    [processID |-> processID, states |-> Len(states), actions |-> Len(actions)]

\* Mutant: a failed state request is tried again.
AbortRetry(e) ==
    IF e.step = "state" /\ e.cause = "request"
    THEN pc' = "CreateStates" /\ err' = err /\ calls' = calls
    ELSE pc' = "error" /\ err' = e /\ calls' = calls

\* Mutant: the process is deleted again when the run fails.
AbortWithRollback(e) ==
    /\ pc' = "error"
    /\ err' = e
    /\ calls' = IF processID # ""
                THEN Append(calls, [method |-> "DELETE", kind |-> "process",
                                    entry |-> 1, path |-> processID,
                                    payload |-> ""])
                ELSE calls

\* return fmt.Errorf(...): the run ends, nothing more is sent
Abort(e) ==
    /\ pc' = "error"
    /\ err' = e
    /\ calls' = calls

\* http.Client.Do sends the request and blocks
Send(req, next) ==
    /\ calls' = Append(calls, req)
    /\ pc' = next
    /\ err' = err

Continue(next) ==
    /\ pc' = next
    /\ err' = err
    /\ calls' = calls

\* The server applies a request it answers 2xx, not one it rejects; of a
\* request whose transport failed it may have applied it or not.
ServerApplies(resp, applied) ==
    IF resp.transport THEN TRUE ELSE applied = StatusOK(resp.status)

Receive(resp, applied) ==
    /\ answers' = Append(answers, resp)
    /\ created' = IF applied THEN created \cup {Len(calls)} ELSE created

----------------------------------------------------------------------------
(* createWorkflowCmd.RunE: the steps *)

Init ==
    /\ states \in SeqsUpTo(Codes, MaxStates)
    /\ actions \in SeqsUpTo(ActionDefs, MaxActions)
    /\ pc = "CreateProcess"
    /\ processID = ""
    /\ stateCodeToID = [c \in {} |-> ""]
    /\ si = 0
    /\ ai = 0
    /\ calls = <<>>
    /\ answers = <<>>
    /\ created = {}
    /\ err = NoErr
    /\ result = NoResult
    /\ JWTIdle
    /\ AuthIdle
    /\ RaceIdle

\* Step 1: digit.CreateProcess sends its request
CreateProcessCall ==
    /\ pc = "CreateProcess"
    /\ Send(Request("process", 1, "", ""), "AwaitProcess")
    /\ UNCHANGED <<states, actions, processID, stateCodeToID, si, ai,
                   answers, created, result>>
    /\ UNCHANGED <<jwtVars, authVars, raceVars>>

\* Step 1: the response, and the extraction of the process ID
ProcessResponse ==
    /\ pc = "AwaitProcess"
    /\ \E resp \in Responses("process"), applied \in BOOLEAN :
        /\ ServerApplies(resp, applied)
        /\ Receive(resp, applied)
        /\ LET r == LibReturn(resp)
               x == ExtractID(r.body)
           IN  IF ~r.ok
               THEN Abort(Err("process", "request", "", 0)) /\ processID' = processID
               ELSE IF ~x.parsed
               THEN Abort(Err("process", "parse", "", 0)) /\ processID' = processID
               ELSE IF ~x.ok
               THEN Abort(Err("process", "noid", "", 0)) /\ processID' = processID
               ELSE Continue("CreateStates") /\ processID' = x.id
    /\ UNCHANGED <<states, actions, stateCodeToID, si, ai, result>>
    /\ UNCHANGED <<jwtVars, authVars, raceVars>>

\* Step 2, one iteration: digit.CreateState checks processID and sends
CreateStateCall ==
    /\ pc = "CreateStates"
    /\ ~StatesLoopDone
    /\ LET s == RangeStates(si + 1)
       IN  IF processID = ""
           THEN Abort(Err("state", "request", s.code, s.entry))
           ELSE Send(Request("state", s.entry, processID, s.code), "AwaitState")
    /\ UNCHANGED <<states, actions, processID, stateCodeToID, si, ai,
                   answers, created, result>>
    /\ UNCHANGED <<jwtVars, authVars, raceVars>>

\* Step 2, one iteration: the response, the state ID and the map entry
StateResponse ==
    /\ pc = "AwaitState"
    /\ \E resp \in Responses("state"), applied \in BOOLEAN :
        /\ ServerApplies(resp, applied)
        /\ Receive(resp, applied)
        /\ LET s == RangeStates(si + 1)
               r == LibReturn(resp)
               x == ExtractID(r.body)
           IN  IF ~r.ok
               THEN Abort(Err("state", "request", s.code, s.entry))
                    /\ UNCHANGED <<stateCodeToID, si>>
               ELSE IF ~x.parsed
               THEN Abort(Err("state", "parse", s.code, s.entry))
                    /\ UNCHANGED <<stateCodeToID, si>>
               ELSE IF ~x.ok
               THEN Abort(Err("state", "noid", s.code, s.entry))
                    /\ UNCHANGED <<stateCodeToID, si>>
               ELSE /\ Continue("CreateStates")
                    /\ stateCodeToID' =
                         [c \in DOMAIN stateCodeToID \cup {s.code} |->
                            IF c = s.code THEN x.id ELSE stateCodeToID[c]]
                    /\ si' = si + 1
    /\ UNCHANGED <<states, actions, processID, ai, result>>
    /\ UNCHANGED <<jwtVars, authVars, raceVars>>

\* the states loop ends, Step 3 begins
StatesDone ==
    /\ pc = "CreateStates"
    /\ StatesLoopDone
    /\ Continue("CreateActions")
    /\ UNCHANGED <<states, actions, processID, stateCodeToID, si, ai,
                   answers, created, result>>
    /\ UNCHANGED <<jwtVars, authVars, raceVars>>

\* Step 3, one iteration: the two lookups, then digit.CreateAction checks
\* stateID and sends
CreateActionCall ==
    /\ pc = "CreateActions"
    /\ ai < Len(actions)
    /\ LET a   == RangeActions(ai + 1)
           cur == Lookup(stateCodeToID, a.action.currentState)
           nxt == Lookup(stateCodeToID, a.action.nextState)
       IN  IF ~cur.exists
           THEN Abort(Err("resolve", "current", a.action.currentState, a.entry))
           ELSE IF ~nxt.exists
           THEN Abort(Err("resolve", "next", a.action.nextState, a.entry))
           ELSE IF cur.id = ""
           THEN Abort(Err("action", "request", "", a.entry))
           ELSE Send(ActionRequest(a.entry, cur.id, nxt.id), "AwaitAction")
    /\ UNCHANGED <<states, actions, processID, stateCodeToID, si, ai,
                   answers, created, result>>
    /\ UNCHANGED <<jwtVars, authVars, raceVars>>

\* Step 3, one iteration: the response (its body is not looked at)
ActionResponse ==
    /\ pc = "AwaitAction"
    /\ \E resp \in Responses("action"), applied \in BOOLEAN :
        /\ ServerApplies(resp, applied)
        /\ Receive(resp, applied)
        /\ LET a == RangeActions(ai + 1)
               r == LibReturn(resp)
           IN  IF ~r.ok
               THEN Abort(Err("action", "request", "", a.entry)) /\ ai' = ai
               ELSE Continue("CreateActions") /\ ai' = ai + 1
    /\ UNCHANGED <<states, actions, processID, stateCodeToID, si, result>>
    /\ UNCHANGED <<jwtVars, authVars, raceVars>>

\* the actions loop ends: the summary is printed, RunE returns nil
Finish ==
    /\ pc = "CreateActions"
    /\ ai = Len(actions)
    /\ pc' = "success"
    /\ result' = Summary
    /\ UNCHANGED <<states, actions, processID, stateCodeToID, si, ai,
                   calls, answers, created, err>>
    /\ UNCHANGED <<jwtVars, authVars, raceVars>>

Next ==
    \/ CreateProcessCall
    \/ ProcessResponse
    \/ CreateStateCall
    \/ StateResponse
    \/ StatesDone
    \/ CreateActionCall
    \/ ActionResponse
    \/ Finish

Spec == Init /\ [][Next]_vars

----------------------------------------------------------------------------
(* Vocabulary of the properties *)

CallsOf(kind) == {i \in DOMAIN calls : calls[i].kind = kind}

Answered(i) == i <= Len(answers)

Is2xx(resp) == ~resp.transport /\ resp.status >= 200 /\ resp.status < 300

HasStringID(resp) == resp.body.valid /\ resp.body.hasID

\* the call came back and the step it belongs to went through
Succeeded(i) ==
    /\ Answered(i)
    /\ Is2xx(answers[i])
    /\ calls[i].kind \in {"process", "state"} => HasStringID(answers[i])

EntriesOf(kind) == {calls[i].entry : i \in CallsOf(kind)}

DefCodes == {states[k] : k \in DOMAIN states}

Dangling(k) ==
    \/ actions[k].currentState \notin DefCodes
    \/ actions[k].nextState \notin DefCodes

HasDangling == \E k \in DOMAIN actions : Dangling(k)

FirstDangling ==
    CHOOSE k \in DOMAIN actions :
        Dangling(k) /\ \A j \in DOMAIN actions : Dangling(j) => k <= j

MissingCode(k) ==
    IF actions[k].currentState \notin DefCodes
    THEN actions[k].currentState
    ELSE actions[k].nextState

\* the identifier returned by the latest state-creation call for a code
ReturnedFor(code, id) ==
    \E i \in CallsOf("state") :
        /\ calls[i].payload = code
        /\ Succeeded(i)
        /\ answers[i].body.id = id
        /\ \A j \in CallsOf("state") : calls[j].payload = code => j <= i

----------------------------------------------------------------------------
(* Properties *)

\* C1: a state-creation call is sent only after the process-creation call
\* has been sent and answered, and an action-creation call only after the
\* process call and a call for every state of the definition have been
\* sent and answered (process -> states -> actions).
C1_StrictOrder ==
    [][Len(calls') > Len(calls) =>
        LET c == calls'[Len(calls')]
            processAnswered == \E i \in CallsOf("process") : Answered(i)
        IN  /\ c.kind = "process" => calls = <<>>
            /\ c.kind = "state" => processAnswered
            /\ c.kind = "action" =>
                /\ processAnswered
                /\ \A k \in DOMAIN states :
                     \E i \in CallsOf("state") : calls[i].entry = k /\ Answered(i)
                /\ \A i \in CallsOf("state") : Answered(i)]_vars

C1_Witness ==
    /\ Len(states) = 2
    /\ CallsOf("action") # {}

\* C2: every action-creation call carries, as path parameter, the identifier
\* the server returned for the state whose code is the action's
\* currentState and, as nextState of the payload, the identifier returned
\* for the state whose code is the action's nextState.
C2_ResolvedIdentifiers ==
    \A i \in CallsOf("action") :
        LET a == actions[calls[i].entry]
        IN  /\ ReturnedFor(a.currentState, calls[i].path)
            /\ ReturnedFor(a.nextState, calls[i].payload)

C2_Witness ==
    \E i \in CallsOf("action") :
        /\ actions[calls[i].entry].currentState # actions[calls[i].entry].nextState
        /\ calls[i].path # calls[i].payload

\* C3, as stated: a definition with a reference to a code that no state
\* has makes the run fail naming a missing code, and no action-creation
\* call is sent in that run.
C3_Original ==
    HasDangling =>
        /\ CallsOf("action") = {}
        /\ (pc \in {"success", "error"} /\ \A i \in DOMAIN calls : Succeeded(i)) =>
            /\ pc = "error"
            /\ err.step = "resolve"
            /\ err.name \notin DefCodes

\* C3, amended: with such a definition the run never succeeds; no
\* action-creation call is sent for the first action with a missing code
\* nor for any later one; an unresolved-reference failure is raised at that
\* action and names its missing code (currentState looked up first); and
\* the run fails that way when every call before that action went through.
C3_UnresolvedReference ==
    HasDangling =>
        LET d == FirstDangling
        IN  /\ pc # "success"
            /\ \A i \in CallsOf("action") : calls[i].entry < d
            /\ err.step = "resolve" =>
                /\ pc = "error"
                /\ err.entry = d
                /\ err.name = MissingCode(d)
                /\ err.name \notin DefCodes
                /\ EntriesOf("action") = 1..(ai)
                /\ ai + 1 = d
            /\ (/\ pc = "error"
                /\ si = Len(states)
                /\ ai + 1 = d
                /\ \A i \in DOMAIN calls : Succeeded(i)) => err.step = "resolve"

C3_Witness ==
    /\ pc = "error"
    /\ err.step = "resolve"
    /\ err.cause = "next"
    /\ CallsOf("action") # {}

\* C4: when the answer to the process-creation call is a 2xx response
\* without a string "id", the run has failed and no state-creation or
\* action-creation call is ever sent.
C4_ProcessWithoutID ==
    \A i \in CallsOf("process") :
        (Answered(i) /\ Is2xx(answers[i]) /\ ~HasStringID(answers[i])) =>
            /\ pc = "error"
            /\ err.step = "process"
            /\ CallsOf("state") = {}
            /\ CallsOf("action") = {}

C4_Witness ==
    /\ Len(states) > 0
    /\ \E i \in CallsOf("process") :
        Answered(i) /\ Is2xx(answers[i]) /\ answers[i].body.valid
            /\ ~answers[i].body.hasID

\* C5: when the answer to the creation of the k-th state is a 2xx response
\* without a string "id", the run has failed with an error naming that
\* state's code, exactly the first k states have been submitted, no action
\* has, and the map holds entries for the states before the k-th only.
C5_StateWithoutID ==
    \A i \in CallsOf("state") :
        (Answered(i) /\ Is2xx(answers[i]) /\ ~HasStringID(answers[i])) =>
            LET k == calls[i].entry
            IN  /\ pc = "error"
                /\ err.step = "state"
                /\ err.name = states[k]
                /\ EntriesOf("state") = 1..k
                /\ Cardinality(CallsOf("state")) = k
                /\ CallsOf("action") = {}
                /\ DOMAIN stateCodeToID = {states[j] : j \in {n \in 1..k : n < k}}

C5_Witness ==
    \E i \in CallsOf("state") :
        /\ calls[i].entry = 2
        /\ Answered(i) /\ Is2xx(answers[i]) /\ answers[i].body.valid
        /\ ~answers[i].body.hasID
        /\ Len(actions) > 0

\* C6: the run does not go past the first failing step: a call that failed
\* (transport error, non-2xx status, unparseable body, missing identifier)
\* is the last call of the run and the run has ended in error; and once an
\* error has been raised, an unresolved state reference included, the run
\* is in the error state with no call in flight.
C6_StopsAtFirstFailure ==
    /\ \A i \in DOMAIN answers :
        ~Succeeded(i) => (i = Len(calls) /\ pc = "error" /\ err # NoErr)
    /\ err # NoErr => (pc = "error" /\ Len(answers) = Len(calls))
    /\ err.step = "resolve" =>
        \A i \in CallsOf("action") : calls[i].entry < err.entry

C6_Witness ==
    /\ Len(actions) = 2
    /\ \E i \in CallsOf("action") :
        /\ calls[i].entry = 1
        /\ Answered(i)
        /\ ~answers[i].transport
        /\ ~Is2xx(answers[i])

\* C7: in the success state exactly one process-creation call, one
\* state-creation call per state and one action-creation call per action
\* have been sent, and the result reports the process identifier the server
\* returned, the number of states and the number of actions of the
\* definition.
C7_SuccessSummary ==
    pc = "success" =>
        /\ Cardinality(CallsOf("process")) = 1
        /\ Cardinality(CallsOf("state")) = Len(states)
        /\ EntriesOf("state") = DOMAIN states
        /\ Cardinality(CallsOf("action")) = Len(actions)
        /\ EntriesOf("action") = DOMAIN actions
        /\ \A i \in CallsOf("process") : result.processID = answers[i].body.id
        /\ result.states = Len(states)
        /\ result.actions = Len(actions)

C7_Witness ==
    /\ pc = "success"
    /\ Len(states) = 2
    /\ states[1] = states[2]
    /\ Len(actions) = 1

\* C8: the state-creation calls are sent in the order of the states of the
\* definition and the action-creation calls in the order of its actions,
\* one at a time: at most one call is unanswered, and every call but the
\* last one has come back successfully.
C8_Sequential ==
    LET sc == SelectSeq(calls, LAMBDA c : c.kind = "state")
        ac == SelectSeq(calls, LAMBDA c : c.kind = "action")
    IN  /\ Len(answers) <= Len(calls)
        /\ Len(calls) <= Len(answers) + 1
        /\ \A i \in DOMAIN calls : i < Len(calls) => Succeeded(i)
        /\ Len(sc) <= Len(states)
        /\ \A k \in DOMAIN sc : sc[k].entry = k /\ sc[k].payload = states[k]
        /\ Len(ac) <= Len(actions)
        /\ \A k \in DOMAIN ac : ac[k].entry = k

C8_Witness ==
    /\ Cardinality(CallsOf("state")) = 2
    /\ states[1] # states[2]
    /\ Cardinality(CallsOf("action")) = 2
    /\ actions[1] # actions[2]

\* C9: nothing is submitted twice: the process-creation call is sent at most
\* once and every state entry and action entry of the definition at most
\* once, whether its call succeeds or fails.
C9_NoRetry ==
    /\ Cardinality(CallsOf("process")) <= 1
    /\ \A i, j \in DOMAIN calls :
        (calls[i].kind = calls[j].kind /\ calls[i].entry = calls[j].entry) => i = j

C9_Witness ==
    /\ pc = "error"
    /\ \E i \in CallsOf("state") : Answered(i) /\ answers[i].transport

\* C10: no compensation: every call of a run is a creation (POST) call,
\* never a delete, and whatever the server has created on a 2xx answer is
\* still there, also when the run has ended in error.
C10_NoCompensation ==
    /\ \A i \in DOMAIN calls : calls[i].method = "POST"
    /\ \A i \in DOMAIN answers : Is2xx(answers[i]) => i \in created

C10_Witness ==
    /\ pc = "error"
    /\ Cardinality(created) >= 2
    /\ \E i \in CallsOf("state") : i \in created

\* the states loop is over: the actions loop runs, or the run has ended in
\* it or after it
ActionPhase ==
    \/ pc \in {"CreateActions", "AwaitAction", "success"}
    \/ pc = "error" /\ err.step \in {"resolve", "action"}

\* the map holds, for exactly the state codes of the definition, the
\* identifier the latest state-creation call for the code returned, and the
\* action requests sent carry identifiers taken from it
MapOfStates ==
    /\ DOMAIN stateCodeToID = DefCodes
    /\ \A c \in DefCodes : ReturnedFor(c, stateCodeToID[c])
    /\ \A i \in CallsOf("action") :
          /\ calls[i].path = stateCodeToID[actions[calls[i].entry].currentState]
          /\ calls[i].payload = stateCodeToID[actions[calls[i].entry].nextState]

\* C25: no identifier is recorded for actions and the code-to-identifier map
\* is fixed once the states phase ends: from the start of the action phase
\* its keys are exactly the state codes of the definition, each mapped to
\* the identifier returned by the most recent state-creation call for that
\* code (of two states sharing a code the later wins), and no step of the
\* action phase adds, removes or changes an entry.
C25_MapFixedInActionPhase ==
    [][/\ ActionPhase => (MapOfStates /\ stateCodeToID' = stateCodeToID)
       /\ ActionPhase' => MapOfStates']_vars

\* two states share a code, the later identifier is in the map and an
\* action was attached to it
C25_Witness ==
    /\ pc = "success"
    /\ Len(states) = 2 /\ states[1] = states[2] /\ Len(actions) >= 1
    /\ answers[2].body.id # answers[3].body.id
    /\ stateCodeToID[states[1]] = answers[3].body.id
    /\ \E i \in CallsOf("action") : calls[i].path = answers[3].body.id

\* C26: state references are validated lazily, per action: whenever the run
\* fails with an unresolved state reference, the process-creation call and
\* a state-creation call for every state of the definition have been sent
\* and have succeeded, and every action before the offending one has been
\* submitted; no run ends on a dangling reference before the server has
\* been contacted.
C26_LazyValidation ==
    /\ (pc = "error" /\ err.step = "resolve") =>
          /\ \E i \in CallsOf("process") : Succeeded(i)
          /\ \A k \in DOMAIN states :
                \E i \in CallsOf("state") : calls[i].entry = k /\ Succeeded(i)
          /\ \A k \in DOMAIN actions :
                k < err.entry =>
                    \E i \in CallsOf("action") : calls[i].entry = k /\ Succeeded(i)
          /\ Len(answers) = Len(calls)
    /\ (pc = "error" /\ HasDangling) => calls # <<>>

\* the second action names an unknown state: process, both states and the
\* first action are on the server when the run fails
C26_Witness ==
    /\ pc = "error" /\ err.step = "resolve" /\ err.entry = 2
    /\ Len(states) = 2
    /\ Len(calls) = 4
    /\ created = {1, 2, 3, 4}

----------------------------------------------------------------------------
(* pkg/jwt: DecodeJWT, ExtractTenantID, IsTokenExpired                     *)
(*                                                                         *)
(* A token string is modelled by its '.'-separated segments (what          *)
(* strings.Split(token, ".") returns; the empty string has one empty       *)
(* segment).  A segment is a sequence of characters, of which three kinds  *)
(* are told apart: "a", a character of the base64url alphabet; "=", the    *)
(* padding character; "n", a carriage return or line feed, which the       *)
(* decoder of encoding/base64 skips; "+", any other character outside the  *)
(* alphabet.  `payload` is what the bytes of the middle segment are when   *)
(* it decodes to any; `short` says whether the whole string has fewer     *)
(* than 50 characters, which is all that config set and config use-context *)
(* read of its length.                                                     *)
(* Time is counted in whole seconds.                                       *)

MaxSegments == 4

MaxSegLen == 6

MaxNow == 2

MaxIssLen == 3

\* the 30 second buffer of IsTokenExpired
ExpiryBuffer == 30

B64Chars == {"a", "=", "n", "+"}

Segments == SeqsUpTo(B64Chars, MaxSegLen)

\* "https://host": "s" is the text "https:", "h" the host name
URLPrefix == <<"s", "/", "/", "h">>

\* issuer strings, bare or behind "https://host": "c" is any character
\* but '/'
Issuers ==
    SeqsUpTo({"c", "/"}, MaxIssLen)
        \cup {URLPrefix \o p : p \in SeqsUpTo({"c", "/"}, MaxIssLen)}

Clocks == 0..MaxNow

\* exp claims around every clock + buffer, and the zero value
Exps == {0} \cup ((ExpiryBuffer - 1)..(ExpiryBuffer + MaxNow + 1))

NotJSON == [kind |-> "notjson", hasExp |-> FALSE, exp |-> 0, iss |-> <<>>]

ClaimSet(hasExp, exp, iss) ==
    [kind |-> "object", hasExp |-> hasExp, exp |-> exp, iss |-> iss]

\* bytes that are no JSON, JSON null, a JSON object with a member of the
\* wrong type, and JSON objects holding claims
Payloads ==
    {NotJSON,
     [kind |-> "null", hasExp |-> FALSE, exp |-> 0, iss |-> <<>>],
     [kind |-> "wrongtype", hasExp |-> TRUE, exp |-> 0, iss |-> <<>>]}
        \cup {ClaimSet(TRUE, e, i) : e \in Exps, i \in Issuers}
        \cup {ClaimSet(FALSE, 0, i) : i \in Issuers}

MkToken(k, mid, payload) ==
    [segs |-> [i \in 1..k |-> IF i = 2 THEN mid ELSE <<"a">>],
     payload |-> payload, short |-> FALSE]

\* the empty string
EmptyToken == [segs |-> << <<>> >>, payload |-> NotJSON, short |-> TRUE]

GoodMid == <<"a", "a">>

SomeClaims == ClaimSet(TRUE, ExpiryBuffer + 1, <<"c", "/", "c">>)

\* every number of segments, every middle segment, every payload
Tokens ==
    {EmptyToken}
        \cup {MkToken(k, GoodMid, p) :
                k \in 1..MaxSegments, p \in {NotJSON, SomeClaims}}
        \cup {MkToken(3, m, p) : m \in Segments, p \in {NotJSON, SomeClaims}}
        \cup {MkToken(3, GoodMid, p) : p \in Payloads}

ZeroClaims == [exp |-> 0, iss |-> <<>>]

\* strings.Split(s, sep)
RECURSIVE Split(_, _)
Split(s, sep) ==
    IF \A i \in DOMAIN s : s[i] # sep
    THEN <<s>>
    ELSE LET i == CHOOSE i \in DOMAIN s :
                    s[i] = sep /\ \A j \in DOMAIN s : j < i => s[j] # sep
         IN  <<SubSeq(s, 1, i - 1)>> \o Split(SubSeq(s, i + 1, Len(s)), sep)

\* for len(payload)%4 != 0 { payload += "=" }
RECURSIVE Pad(_)
Pad(payload) ==
    IF Len(payload) % 4 # 0 THEN Pad(Append(payload, "=")) ELSE payload

NotNewline(c) == c # "n"

\* base64.URLEncoding.DecodeString: '\r' and '\n' are ignored; what is left
\* must be whole quanta of four characters of the alphabet, the last one
\* possibly ending in one or two '='
B64Decode(src) ==
    LET s == SelectSeq(src, NotNewline)
        n == Cardinality({i \in DOMAIN s : s[i] # "="})
        okChars == \A i \in DOMAIN s :
                      /\ s[i] # "+"
                      /\ s[i] = "=" => i > n
        ok == okChars /\ Len(s) % 4 = 0 /\ Len(s) - n <= 2
    IN  [ok |-> ok, len |-> IF ok THEN 3 * (Len(s) \div 4) - (Len(s) - n) ELSE 0]

\* json.Unmarshal(decoded, &claims)
Unmarshal(len, payload) ==
    IF len = 0 \/ payload.kind \in {"notjson", "wrongtype"}
    THEN [ok |-> FALSE, claims |-> ZeroClaims]
    ELSE IF payload.kind = "null"
    THEN [ok |-> TRUE, claims |-> ZeroClaims]
    ELSE [ok |-> TRUE,
          claims |-> [exp |-> IF payload.hasExp THEN payload.exp ELSE 0,
                      iss |-> payload.iss]]

DecodeJWT(t) ==
    IF Len(t.segs) # 3
    THEN [ok |-> FALSE, err |-> "format", claims |-> ZeroClaims]
    ELSE LET d == B64Decode(Pad(t.segs[2]))
             j == Unmarshal(d.len, t.payload)
         IN  IF ~d.ok THEN [ok |-> FALSE, err |-> "base64", claims |-> ZeroClaims]
             ELSE IF ~j.ok THEN [ok |-> FALSE, err |-> "json", claims |-> ZeroClaims]
             ELSE [ok |-> TRUE, err |-> "", claims |-> j.claims]

ExtractTenantID(t) ==
    LET d == DecodeJWT(t)
        parts == Split(d.claims.iss, "/")
    IN  IF ~d.ok THEN [ok |-> FALSE, err |-> d.err, realm |-> <<>>]
        ELSE IF Len(parts) < 2
        THEN [ok |-> FALSE, err |-> "issuer", realm |-> <<>>]
        ELSE IF parts[Len(parts)] = <<>>
        THEN [ok |-> FALSE, err |-> "realm", realm |-> <<>>]
        ELSE [ok |-> TRUE, err |-> "", realm |-> parts[Len(parts)]]

\* Mutant: a token counts as expired only once the buffered time has
\* reached the expiry (">=" for ">").
IsTokenExpiredNotBefore(t, time) ==
    LET d == DecodeJWT(t)
    IN  IF ~d.ok THEN [expired |-> TRUE, err |-> d.err]
        ELSE [expired |-> time + ExpiryBuffer >= d.claims.exp, err |-> ""]

\* Mutant: a token that cannot be decoded is reported with Go's zero value.
IsTokenExpiredZeroOnError(t, time) ==
    LET d == DecodeJWT(t)
    IN  IF ~d.ok THEN [expired |-> FALSE, err |-> d.err]
        ELSE [expired |-> time + ExpiryBuffer > d.claims.exp, err |-> ""]

\* time.Now().Add(30*time.Second).After(time.Unix(claims.Exp, 0))
IsTokenExpired(t, time) ==
    LET d == DecodeJWT(t)
    IN  IF ~d.ok THEN [expired |-> TRUE, err |-> d.err]
        ELSE [expired |-> time + ExpiryBuffer > d.claims.exp, err |-> ""]

\* the workflow run is not part of these behaviours
WorkflowIdle ==
    /\ states = <<>> /\ actions = <<>> /\ pc = "idle" /\ processID = ""
    /\ stateCodeToID = <<>> /\ si = 0 /\ ai = 0
    /\ calls = <<>> /\ answers = <<>> /\ created = {}
    /\ err = NoErr /\ result = NoResult

InitJWT ==
    /\ token \in Tokens
    /\ clock \in Clocks
    /\ fn = ""
    /\ out = <<>>
    /\ WorkflowIdle
    /\ AuthIdle
    /\ RaceIdle

ApplyDecodeJWT ==
    /\ fn = ""
    /\ fn' = "DecodeJWT"
    /\ out' = DecodeJWT(token)
    /\ UNCHANGED <<token, clock, wfVars, authVars, raceVars>>

ApplyExtractTenantID ==
    /\ fn = ""
    /\ fn' = "ExtractTenantID"
    /\ out' = ExtractTenantID(token)
    /\ UNCHANGED <<token, clock, wfVars, authVars, raceVars>>

ApplyIsTokenExpired ==
    /\ fn = ""
    /\ fn' = "IsTokenExpired"
    /\ out' = IsTokenExpired(token, clock)
    /\ UNCHANGED <<token, clock, wfVars, authVars, raceVars>>

NextJWT ==
    \/ ApplyDecodeJWT
    \/ ApplyExtractTenantID
    \/ ApplyIsTokenExpired

SpecJWT == InitJWT /\ [][NextJWT]_vars

----------------------------------------------------------------------------
(* pkg/config, digit.GetJWTToken and pkg/auth                              *)
(*                                                                         *)
(* `file` is the content of ~/.digit/config.yaml; a missing file reads as  *)
(* the empty Config.  Every setter loads the whole file, changes one field *)
(* and saves the whole file.                                               *)

MaxOps == 3

AuthConfig(server, secret) ==
    [nil |-> FALSE, server_url |-> server, realm |-> "acme",
     client_id |-> "cli", client_secret |-> secret,
     username |-> "user", password |-> "pw"]

\* config.AuthConfig == nil
NilAuth ==
    [nil |-> TRUE, server_url |-> "", realm |-> "", client_id |-> "",
     client_secret |-> "", username |-> "", password |-> ""]

\* two complete credential sets and one with an empty field
Creds == {AuthConfig("s1", "x"), AuthConfig("s2", "x"), AuthConfig("s1", "")}

EmptyConfig == [server |-> "", jwt_token |-> EmptyToken, auth_config |-> NilAuth]

Load(f) == f

\* Mutant: the server URL is saved into a fresh Config.
SetServerURLFresh(f, serverURL) == [EmptyConfig EXCEPT !.server = serverURL]

SetServerURL(f, serverURL) == [Load(f) EXCEPT !.server = serverURL]

\* Mutant: the token is saved into a fresh Config, not into the loaded one.
SetJWTTokenFresh(f, t) == [EmptyConfig EXCEPT !.jwt_token = t]

SetJWTToken(f, t) == [Load(f) EXCEPT !.jwt_token = t]

SetAuthConfig(f, a) == [Load(f) EXCEPT !.auth_config = a]

\* a token with claims {exp: e, iss: "c/c"}
Tok(e) == MkToken(3, GoodMid, ClaimSet(TRUE, e, <<"c", "/", "c">>))

\* a token that is expired at every clock
StaleTok == Tok(ExpiryBuffer - 1)

\* a short string that is no JWT
Garbled == [MkToken(1, GoodMid, NotJSON) EXCEPT !.short = TRUE]

\* a JWT of fewer than 50 characters
ShortTok == [Tok(ExpiryBuffer + MaxNow + 1) EXCEPT !.short = TRUE]

\* tokens expiring 30 s after clock 1, and later than 30 s after every clock
LiveTokens == {Tok(ExpiryBuffer + 1), Tok(ExpiryBuffer + MaxNow + 1)}

\* what the token endpoint answers: no answer (transport error), or a
\* status with a body; `token` is the access_token member of a JSON body
\* ("" when the member is absent)
Transport == [kind |-> "transport", status |-> 0, body |-> "", token |-> EmptyToken]

Http(status, body, t) == [kind |-> "http", status |-> status, body |-> body, token |-> t]

NoReply == [kind |-> "none", status |-> 0, body |-> "", token |-> EmptyToken]

Replies ==
    {Transport,
     Http(401, "denied", EmptyToken),
     Http(201, "json", Tok(ExpiryBuffer + MaxNow + 1)),
     Http(200, "not json", EmptyToken)}
        \cup {Http(200, "json", t) : t \in LiveTokens \cup {EmptyToken, ShortTok}}

\* digit.GetJWTToken
DigitGetJWTToken(a, reply) ==
    IF \/ a.server_url = "" \/ a.realm = "" \/ a.client_id = ""
       \/ a.client_secret = "" \/ a.username = "" \/ a.password = ""
    THEN [ok |-> FALSE, err |-> "empty parameter", body |-> "",
          token |-> EmptyToken, requests |-> 0]
    ELSE IF reply.kind = "transport"
    THEN [ok |-> FALSE, err |-> "token request", body |-> "",
          token |-> EmptyToken, requests |-> 1]
    ELSE IF reply.status # 200
    THEN [ok |-> FALSE, err |-> "get token", body |-> reply.body,
          token |-> EmptyToken, requests |-> 1]
    ELSE IF reply.body # "json"
    THEN [ok |-> FALSE, err |-> "parse token response", body |-> "",
          token |-> EmptyToken, requests |-> 1]
    ELSE [ok |-> TRUE, err |-> "", body |-> "",
          token |-> reply.token, requests |-> 1]

\* what an operation of pkg/auth returns and does: the token or the error
\* (with the error it wraps and the response body that error quotes), the
\* requests sent to the token endpoint, whether RefreshToken ran, the file
Outcome(ok, t, e, cause, body, requests, refreshed, f) ==
    [ok |-> ok, token |-> t, err |-> e, cause |-> cause, body |-> body,
     requests |-> requests, refreshed |-> refreshed, file |-> f]

Failure(e, cause, body, requests, refreshed, f) ==
    Outcome(FALSE, EmptyToken, e, cause, body, requests, refreshed, f)

\* Mutant: a failed token request is repeated once.
RefreshTokenRetry(f, reply) ==
    LET a == Load(f).auth_config
        r == DigitGetJWTToken(a, reply)
    IN  IF a.nil
        THEN Failure("no authentication configuration", "", "", 0, TRUE, f)
        ELSE IF ~r.ok
        THEN Failure("authenticate", r.err, r.body, r.requests + r.requests, TRUE, f)
        ELSE Outcome(TRUE, r.token, "", "", "", r.requests, TRUE,
                     SetJWTToken(f, r.token))

\* Mutant: the new token is returned but not stored.
RefreshTokenNoStore(f, reply) ==
    LET a == Load(f).auth_config
        r == DigitGetJWTToken(a, reply)
    IN  IF a.nil
        THEN Failure("no authentication configuration", "", "", 0, TRUE, f)
        ELSE IF ~r.ok
        THEN Failure("authenticate", r.err, r.body, r.requests, TRUE, f)
        ELSE Outcome(TRUE, r.token, "", "", "", r.requests, TRUE, f)

\* Mutant: without credentials the stale token is dropped from the file.
RefreshTokenDropsToken(f, reply) ==
    LET a == Load(f).auth_config
        r == DigitGetJWTToken(a, reply)
    IN  IF a.nil
        THEN Failure("no authentication configuration", "", "", 0, TRUE,
                     SetJWTToken(f, EmptyToken))
        ELSE IF ~r.ok
        THEN Failure("authenticate", r.err, r.body, r.requests, TRUE, f)
        ELSE Outcome(TRUE, r.token, "", "", "", r.requests, TRUE,
                     SetJWTToken(f, r.token))

\* Mutant: a failed token request drops the cached token.
RefreshTokenClearsOnFailure(f, reply) ==
    LET a == Load(f).auth_config
        r == DigitGetJWTToken(a, reply)
    IN  IF a.nil
        THEN Failure("no authentication configuration", "", "", 0, TRUE, f)
        ELSE IF ~r.ok
        THEN Failure("authenticate", r.err, r.body, r.requests, TRUE,
                     SetJWTToken(f, EmptyToken))
        ELSE Outcome(TRUE, r.token, "", "", "", r.requests, TRUE,
                     SetJWTToken(f, r.token))

RefreshToken(f, reply) ==
    LET a == Load(f).auth_config
        r == DigitGetJWTToken(a, reply)
    IN  IF a.nil
        THEN Failure("no authentication configuration", "", "", 0, TRUE, f)
        ELSE IF ~r.ok
        THEN Failure("authenticate", r.err, r.body, r.requests, TRUE, f)
        ELSE Outcome(TRUE, r.token, "", "", "", r.requests, TRUE,
                     SetJWTToken(f, r.token))

\* Mutant: a token that cannot be validated is refreshed like an expired one.
GetValidJWTTokenRefreshOnError(f, time, reply) ==
    LET t == Load(f).jwt_token
        e == IsTokenExpired(t, time)
        r == RefreshToken(f, reply)
    IN  IF t = EmptyToken
        THEN Failure("no JWT token found", "", "", 0, FALSE, f)
        ELSE IF ~e.expired
        THEN Outcome(TRUE, t, "", "", "", 0, FALSE, f)
        ELSE IF ~r.ok
        THEN Failure("refresh token", r.err, r.body, r.requests, TRUE, r.file)
        ELSE r

GetValidJWTToken(f, time, reply) ==
    LET t == Load(f).jwt_token
        e == IsTokenExpired(t, time)
        r == RefreshToken(f, reply)
    IN  IF t = EmptyToken
        THEN Failure("no JWT token found", "", "", 0, FALSE, f)
        ELSE IF e.err # ""
        THEN Failure("validate token", e.err, "", 0, FALSE, f)
        ELSE IF ~e.expired
        THEN Outcome(TRUE, t, "", "", "", 0, FALSE, f)
        ELSE IF ~r.ok
        THEN Failure("refresh token", r.err, r.body, r.requests, TRUE, r.file)
        ELSE r

\* which of the three writes of config set returns an error, if any
WriteFailures == {"none", "SetServerURL", "SetJWTToken", "SetAuthConfig"}

\* config set and config use-context: authenticate, then three writes, each
\* a Load and a Save of the whole file and each ending the command when it
\* returns an error (the file is then as the writes before it left it), then
\* print the first 50 characters of the token
ConfigSet(f, a, reply, failing) ==
    LET r == DigitGetJWTToken(a, reply)
        f1 == SetServerURL(f, a.server_url)
        f2 == SetJWTToken(f1, r.token)
        f3 == SetAuthConfig(f2, a)
    IN  IF ~r.ok
        THEN Failure("authenticate", r.err, r.body, r.requests, FALSE, f)
        ELSE IF failing = "SetServerURL"
        THEN Failure("set server URL", "", "", r.requests, FALSE, f)
        ELSE IF failing = "SetJWTToken"
        THEN Failure("set JWT token", "", "", r.requests, FALSE, f1)
        ELSE IF failing = "SetAuthConfig"
        THEN Failure("store auth config", "", "", r.requests, FALSE, f2)
        ELSE IF r.token.short
        THEN Failure("slice bounds out of range", "", "", r.requests, FALSE, f3)
        ELSE Outcome(TRUE, r.token, "", "", "", r.requests, FALSE, f3)

\* an authenticated call on the wire, or none
NoCall == [issued |-> FALSE, client |-> "", token |-> EmptyToken]

Call(client, t) == [issued |-> TRUE, client |-> client, token |-> t]

\* api.Client.makeRequest: the header comes from GetAuthorizationHeader
MakeRequest(f, time, reply) ==
    LET o == GetValidJWTToken(f, time, reply)
    IN  [out |-> o, sent |-> IF o.ok THEN Call("api", o.token) ELSE NoCall]

\* create-workflow up to its first remote call: server and token from the
\* flags or else from the file, the tenant from the token
CreateWorkflowStart(f, serverFlag, tokenFlag) ==
    LET cfg == Load(f)
        serverURL == IF serverFlag = "" THEN cfg.server ELSE serverFlag
        jwtToken == IF tokenFlag = EmptyToken THEN cfg.jwt_token ELSE tokenFlag
        tenant == ExtractTenantID(jwtToken)
    IN  IF serverURL = ""
        THEN [out |-> Failure("server URL not configured", "", "", 0, FALSE, f),
              sent |-> NoCall]
        ELSE IF jwtToken = EmptyToken
        THEN [out |-> Failure("JWT token not configured", "", "", 0, FALSE, f),
              sent |-> NoCall]
        ELSE IF ~tenant.ok
        THEN [out |-> Failure("extract tenant ID", tenant.err, "", 0, FALSE, f),
              sent |-> NoCall]
        ELSE [out |-> Outcome(TRUE, jwtToken, "", "", "", 0, FALSE, f),
              sent |-> Call("workflow", jwtToken)]

\* the file is the user's: absent, written by config set or use-context, or
\* written by hand (auth_config is optional in it)
InitFiles ==
    {EmptyConfig}
        \cup {[server |-> "s1", jwt_token |-> t, auth_config |-> a] :
                t \in LiveTokens \cup {StaleTok, Garbled, EmptyToken, ShortTok},
                a \in Creds \cup {NilAuth}}

\* the record of the last operation: at what time and on which file it ran,
\* what the token endpoint answered (if asked), what it returned, the call
\* it sent, and whether it ran right after a GetValidJWTToken that refreshed
Record(op, reply, o, sent) ==
    [op |-> op, at |-> now, before |-> file,
     reply |-> IF o.requests = 0 THEN NoReply ELSE reply,
     out |-> [o EXCEPT !.file = EmptyConfig], sent |-> sent,
     follows |-> /\ last.op = "GetValidJWTToken"
                 /\ last.out.ok /\ last.out.refreshed]

NoOp ==
    [op |-> "", at |-> 0, before |-> EmptyConfig, reply |-> NoReply,
     out |-> Failure("", "", "", 0, FALSE, EmptyConfig), sent |-> NoCall,
     follows |-> FALSE]

\* what the last explicit authentication stored
Stored(f) == [server |-> f.server, auth_config |-> f.auth_config]

InitAuth ==
    /\ file \in InitFiles
    /\ now = 0
    /\ last = NoOp
    /\ lastAuth = Stored(file)
    /\ ops = 0
    /\ WorkflowIdle
    /\ JWTIdle
    /\ RaceIdle

Tick ==
    /\ now < MaxNow
    /\ now' = now + 1
    /\ UNCHANGED <<file, last, lastAuth, ops, wfVars, jwtVars, raceVars>>

DoGetValidJWTToken ==
    /\ ops < MaxOps
    /\ \E reply \in Replies :
          LET o == GetValidJWTToken(file, now, reply)
          IN  /\ file' = o.file
              /\ last' = Record("GetValidJWTToken", reply, o, NoCall)
    /\ ops' = ops + 1
    /\ UNCHANGED <<now, lastAuth, wfVars, jwtVars, raceVars>>

DoRefreshToken ==
    /\ ops < MaxOps
    /\ \E reply \in Replies :
          LET o == RefreshToken(file, reply)
          IN  /\ file' = o.file
              /\ last' = Record("RefreshToken", reply, o, NoCall)
    /\ ops' = ops + 1
    /\ UNCHANGED <<now, lastAuth, wfVars, jwtVars, raceVars>>

\* config set or use-context run to its end, one of `failures` deciding
\* which write returns an error
ConfigSetStep(failures) ==
    /\ ops < MaxOps
    /\ \E a \in Creds, reply \in Replies, failing \in failures :
          LET o == ConfigSet(file, a, reply, failing)
          IN  /\ file' = o.file
              /\ last' = Record("ConfigSet", reply, o, NoCall)
              /\ lastAuth' = Stored(o.file)
    /\ ops' = ops + 1
    /\ UNCHANGED <<now, wfVars, jwtVars, raceVars>>

\* the configuration file can be written
DoConfigSet == ConfigSetStep({"none"})

DoMakeRequest ==
    /\ ops < MaxOps
    /\ \E reply \in Replies :
          LET m == MakeRequest(file, now, reply)
          IN  /\ file' = m.out.file
              /\ last' = Record("MakeRequest", reply, m.out, m.sent)
    /\ ops' = ops + 1
    /\ UNCHANGED <<now, lastAuth, wfVars, jwtVars, raceVars>>

DoCreateWorkflow ==
    /\ ops < MaxOps
    /\ \E serverFlag \in {"", "s1"}, tokenFlag \in {EmptyToken, Garbled} \cup LiveTokens :
          LET w == CreateWorkflowStart(file, serverFlag, tokenFlag)
          IN  /\ file' = w.out.file
              /\ last' = Record("CreateWorkflow", NoReply, w.out, w.sent)
    /\ ops' = ops + 1
    /\ UNCHANGED <<now, lastAuth, wfVars, jwtVars, raceVars>>

NextAuth ==
    \/ Tick
    \/ DoGetValidJWTToken
    \/ DoRefreshToken
    \/ DoConfigSet
    \/ DoMakeRequest
    \/ DoCreateWorkflow

SpecAuth == InitAuth /\ [][NextAuth]_vars

\* explicit authentication alone, on a file whose writes can fail
DoConfigSetWrites == ConfigSetStep(WriteFailures)

NextSet == DoConfigSetWrites

SpecSet == InitAuth /\ [][NextSet]_vars

----------------------------------------------------------------------------
(* Commands and the remote calls of the client library: create-account     *)
(* (digit.CreateAccount) beside the calls of create-workflow.  `last` is   *)
(* here the record of the last command: the response its remote call got   *)
(* (if it sent one), whether it ended in success, and whether it printed   *)
(* the response body as its result.                                        *)

NoResponse == [transport |-> FALSE, status |-> 0, body |-> NoBody]

CmdRecord(op, issued, resp, ok, printed) ==
    [op |-> op, issued |-> issued,
     resp |-> IF issued THEN resp ELSE NoResponse,
     ok |-> ok, printed |-> printed]

\* digit.CreateAccount: the raw response body, or an error
CreateAccount(serverURL, clientID, name, email, resp) ==
    IF serverURL = "" \/ name = "" \/ email = "" \/ clientID = ""
    THEN [ok |-> FALSE, body |-> NoBody, issued |-> FALSE]
    ELSE IF resp.transport
    THEN [ok |-> FALSE, body |-> NoBody, issued |-> TRUE]
    ELSE [ok |-> TRUE, body |-> resp.body, issued |-> TRUE]

\* createAccountCmd.RunE
CreateAccountCmd(f, name, email, clientID, serverFlag, resp) ==
    LET serverURL == IF serverFlag = "" THEN Load(f).server ELSE serverFlag
        r == CreateAccount(serverURL, clientID, name, email, resp)
    IN  IF name = "" \/ email = "" \/ serverURL = ""
        THEN CmdRecord("create-account", FALSE, resp, FALSE, FALSE)
        ELSE IF ~r.ok
        THEN CmdRecord("create-account", r.issued, resp, FALSE, FALSE)
        ELSE CmdRecord("create-account", r.issued, resp, TRUE, TRUE)

\* one call of create-workflow: an error of the library ends the command
WorkflowCall(kind, resp) ==
    LET r == LibReturn(resp)
    IN  CmdRecord(kind, TRUE, resp, r.ok, r.ok)

InitCmd ==
    /\ file \in InitFiles
    /\ now = 0
    /\ last = CmdRecord("", FALSE, NoResponse, FALSE, FALSE)
    /\ lastAuth = Stored(file)
    /\ ops = 0
    /\ WorkflowIdle
    /\ JWTIdle
    /\ RaceIdle

DoCreateAccount ==
    /\ ops < MaxOps
    /\ \E name \in {"", "n"}, email \in {"", "e"}, clientID \in {"", "test-client"},
          serverFlag \in {"", "s1"}, resp \in Responses("account") :
          last' = CreateAccountCmd(file, name, email, clientID, serverFlag, resp)
    /\ ops' = ops + 1
    /\ UNCHANGED <<file, now, lastAuth, wfVars, jwtVars, raceVars>>

DoWorkflowCall ==
    /\ ops < MaxOps
    /\ \E kind \in {"process", "state", "action"} :
          \E resp \in Responses(kind) : last' = WorkflowCall(kind, resp)
    /\ ops' = ops + 1
    /\ UNCHANGED <<file, now, lastAuth, wfVars, jwtVars, raceVars>>

NextCmd ==
    \/ DoCreateAccount
    \/ DoWorkflowCall

SpecCmd == InitCmd /\ [][NextCmd]_vars

----------------------------------------------------------------------------
(* Two invocations on one configuration file.  Nothing in pkg/config locks *)
(* the file: a setter is config.Load (one step) followed, after changing   *)
(* the loaded Config in memory, by Config.Save of the whole of it (another *)
(* step), and steps of the two invocations interleave freely.              *)

Procs == {"p", "q"}

Other(p) == CHOOSE q \in Procs : q # p

Setters == {"SetServerURL", "SetJWTToken", "SetAuthConfig"}

\* an invocation: its position, what it runs and with which argument, the
\* Config it loaded, whether the other one was under way when it started,
\* which of the saves was its own (0: none), and for GetValidJWTToken
\* whether it found the cached token expired, the requests it sent to the
\* token endpoint and the result
IdleProc ==
    [pc |-> "idle", prog |-> "", server |-> "", tok |-> EmptyToken,
     auth |-> NilAuth, cfg |-> EmptyConfig, overlapped |-> FALSE,
     saved |-> 0, detected |-> FALSE, requests |-> 0, ok |-> FALSE]

InFlight(p) == procs[p].pc \notin {"idle", "done"}

Saves == Cardinality({p \in Procs : procs[p].saved > 0})

\* the Config a setter saves: the loaded one with its own field changed
Changed(pr) ==
    IF pr.prog = "SetServerURL" THEN SetServerURL(pr.cfg, pr.server)
    ELSE IF pr.prog = "SetJWTToken" THEN SetJWTToken(pr.cfg, pr.tok)
    ELSE SetAuthConfig(pr.cfg, pr.auth)

InitRace ==
    /\ file \in InitFiles
    /\ now = 0
    /\ last = NoOp
    /\ lastAuth = Stored(file)
    /\ ops = 0
    /\ procs = [p \in Procs |-> IdleProc]
    /\ WorkflowIdle
    /\ JWTIdle

\* config.Load at the head of SetServerURL / SetJWTToken / SetAuthConfig
SetterLoad(p) ==
    /\ procs[p].pc = "idle"
    /\ \E prog \in Setters, t \in LiveTokens :
          procs' = [procs EXCEPT ![p] =
                      [IdleProc EXCEPT !.pc = "loaded", !.prog = prog,
                                       !.server = "s2", !.tok = t,
                                       !.auth = AuthConfig("s2", "x"),
                                       !.cfg = Load(file),
                                       !.overlapped = InFlight(Other(p))]]
    /\ UNCHANGED <<file, now, last, lastAuth, ops, wfVars, jwtVars>>

\* the change in memory and Config.Save
SetterSave(p) ==
    /\ procs[p].pc = "loaded"
    /\ procs[p].prog \in Setters
    /\ file' = Changed(procs[p])
    /\ procs' = [procs EXCEPT ![p].pc = "done", ![p].saved = Saves + 1,
                              ![p].ok = TRUE]
    /\ UNCHANGED <<now, last, lastAuth, ops, wfVars, jwtVars>>

\* GetValidJWTToken up to its decision: config.GetJWTToken and IsTokenExpired
ReadToken(p) ==
    /\ procs[p].pc = "idle"
    /\ LET t == Load(file).jwt_token
           e == IsTokenExpired(t, now)
           pr == [IdleProc EXCEPT !.prog = "GetValidJWTToken",
                                  !.overlapped = InFlight(Other(p))]
       IN  procs' = [procs EXCEPT ![p] =
                IF t = EmptyToken \/ e.err # ""
                THEN [pr EXCEPT !.pc = "done"]
                ELSE IF ~e.expired
                THEN [pr EXCEPT !.pc = "done", !.ok = TRUE, !.tok = t]
                ELSE [pr EXCEPT !.pc = "refresh", !.detected = TRUE]]
    /\ UNCHANGED <<file, now, last, lastAuth, ops, wfVars, jwtVars>>

\* RefreshToken: config.GetAuthConfig
ReadAuthConfig(p) ==
    /\ procs[p].pc = "refresh"
    /\ LET a == Load(file).auth_config
       IN  procs' = [procs EXCEPT ![p].auth = a,
                                  ![p].pc = IF a.nil THEN "done" ELSE "request"]
    /\ UNCHANGED <<file, now, last, lastAuth, ops, wfVars, jwtVars>>

\* Mutant: the file is read again before the request, and a token that
\* another invocation has stored meanwhile is taken over without a request.
RefreshRequestDoubleChecked(a, f, time, reply) ==
    IF f.jwt_token # EmptyToken /\ ~IsTokenExpired(f.jwt_token, time).expired
    THEN [ok |-> TRUE, err |-> "", body |-> "", token |-> f.jwt_token,
          requests |-> 0]
    ELSE DigitGetJWTToken(a, reply)

\* RefreshToken: digit.GetJWTToken with the credentials read, whatever the
\* file holds by now
RefreshRequest(a, f, time, reply) == DigitGetJWTToken(a, reply)

SendRefreshRequest(p) ==
    /\ procs[p].pc = "request"
    /\ \E reply \in Replies :
          LET r == RefreshRequest(procs[p].auth, file, now, reply)
          IN  procs' = [procs EXCEPT ![p].requests = r.requests,
                                     ![p].tok = r.token,
                                     ![p].pc = IF r.ok THEN "store" ELSE "done"]
    /\ UNCHANGED <<file, now, last, lastAuth, ops, wfVars, jwtVars>>

\* RefreshToken: config.SetJWTToken, its Load
StoreLoad(p) ==
    /\ procs[p].pc = "store"
    /\ procs' = [procs EXCEPT ![p].cfg = Load(file), ![p].pc = "stored"]
    /\ UNCHANGED <<file, now, last, lastAuth, ops, wfVars, jwtVars>>

\* RefreshToken: config.SetJWTToken, its Save; the new token is returned
StoreSave(p) ==
    /\ procs[p].pc = "stored"
    /\ file' = SetJWTToken(procs[p].cfg, procs[p].tok)
    /\ procs' = [procs EXCEPT ![p].pc = "done", ![p].saved = Saves + 1,
                              ![p].ok = TRUE]
    /\ UNCHANGED <<now, last, lastAuth, ops, wfVars, jwtVars>>

NextRace ==
    \E p \in Procs :
        \/ SetterLoad(p)
        \/ SetterSave(p)
        \/ ReadToken(p)
        \/ ReadAuthConfig(p)
        \/ SendRefreshRequest(p)
        \/ StoreLoad(p)
        \/ StoreSave(p)

SpecRace == InitRace /\ [][NextRace]_vars

----------------------------------------------------------------------------
(* Properties of pkg/jwt, checked under SpecJWT                            *)

\* the token decodes and its claim set has an exp member
HasExpiry(t) == DecodeJWT(t).ok /\ t.payload.kind = "object" /\ t.payload.hasExp

\* C11: for a decodable token with expiry claim exp and current time now,
\* IsTokenExpired reports true exactly when now + 30 s is strictly later
\* than exp, and false otherwise.
C11_ExpiredExactlyPastBuffer ==
    (fn = "IsTokenExpired" /\ HasExpiry(token)) =>
        /\ out.err = ""
        /\ out.expired <=> (clock + ExpiryBuffer > token.payload.exp)

\* the boundary: exp is exactly 30 s ahead and the token is not expired
C11_Witness ==
    /\ fn = "IsTokenExpired" /\ HasExpiry(token)
    /\ clock + ExpiryBuffer = token.payload.exp
    /\ ~out.expired

\* C13: a token with no decodable expiry (a claim set without exp, or claims
\* that cannot be decoded at all) is reported expired, never not expired.
C13_NoExpiryIsExpired ==
    (fn = "IsTokenExpired" /\ ~HasExpiry(token)) => out.expired

\* a token that cannot be decoded was reported expired, with the error
C13_Witness ==
    /\ fn = "IsTokenExpired" /\ ~DecodeJWT(token).ok
    /\ out.expired /\ out.err # ""

\* base64url, with the padding allowed to be missing in part or in whole:
\* characters of the alphabet, then no more '=' than fill the last quantum
Base64URL(seg) ==
    LET n == Cardinality({i \in DOMAIN seg : seg[i] = "a"})
        p == Len(seg) - n
    IN  /\ \A i \in DOMAIN seg : seg[i] = (IF i <= n THEN "a" ELSE "=")
        /\ n % 4 # 1
        /\ p <= (4 - (n % 4)) % 4

\* the bytes the middle segment stands for are a JSON claim set
ParseableClaims(t) ==
    /\ \E i \in DOMAIN t.segs[2] : t.segs[2][i] = "a"
    /\ t.payload.kind \in {"object", "null"}

\* C20: DecodeJWT fails for every token that is not exactly three
\* dot-separated segments and for every three-segment token whose middle
\* segment is not valid base64url or is no parseable claim set; it succeeds
\* otherwise.
C20_DecodeFailsExactly ==
    fn = "DecodeJWT" =>
        (out.ok <=> /\ Len(token.segs) = 3
                    /\ Base64URL(token.segs[2])
                    /\ ParseableClaims(token))

\* the issuer is "https://host" and a rest
IsURL(iss) == Len(iss) >= 4 /\ SubSeq(iss, 1, 4) = URLPrefix

\* what follows the host name: empty, or the path from its first '/'
PathOf(iss) ==
    LET rest == SubSeq(iss, 5, Len(iss))
        slashes == {i \in DOMAIN rest : rest[i] = "/"}
    IN  IF slashes = {} THEN <<>>
        ELSE SubSeq(rest, CHOOSE i \in slashes : \A j \in slashes : i <= j, Len(rest))

\* what follows the last '/' of a path
LastComponent(path) ==
    LET slashes == {i \in DOMAIN path : path[i] = "/"}
    IN  SubSeq(path, (CHOOSE i \in slashes : \A j \in slashes : j <= i) + 1, Len(path))

\* C21: ExtractTenantID returns the last '/'-delimited path component of the
\* issuer and fails when the issuer is absent, is a URL with no path
\* component ("https://host") or ends in '/'; it never returns the host name
\* or the empty string.
C21_TenantIsLastPathComponent ==
    (fn = "ExtractTenantID" /\ DecodeJWT(token).ok) =>
        LET iss == DecodeJWT(token).claims.iss
        IN  /\ iss = <<>> => ~out.ok
            /\ (iss # <<>> /\ iss[Len(iss)] = "/") => ~out.ok
            /\ (IsURL(iss) /\ PathOf(iss) = <<>>) => ~out.ok
            /\ (IsURL(iss) /\ PathOf(iss) # <<>> /\ iss[Len(iss)] # "/") =>
                  out.ok /\ out.realm = LastComponent(PathOf(iss))
            /\ out.ok => out.realm # <<>> /\ out.realm[1] # "h"

----------------------------------------------------------------------------
(* Properties of pkg/auth, checked under SpecAuth                          *)

AuthOps == {"GetValidJWTToken", "RefreshToken", "MakeRequest"}

Cached == last.before.jwt_token

CachedExpiry == IsTokenExpired(Cached, last.at)

NoCredentials ==
    "no authentication configuration" \in {last.out.err, last.out.cause}

\* C12: whenever GetValidJWTToken returns the cached token without
\* refreshing, the time is strictly before exp - 30 s of that token; a token
\* with now >= exp - 30 s, now = exp - 30 s included, is never returned.
C12_ValidStrictlyBeforeMargin ==
    (last.op = "GetValidJWTToken" /\ last.out.ok /\ ~last.out.refreshed) =>
        last.at + ExpiryBuffer < last.out.token.payload.exp

\* C14 as stated: GetValidJWTToken returns the cached token if one is
\* present and not expired, and in every other case (no cached token, an
\* expired one, one that cannot be decoded) it invokes refresh and returns
\* what refresh returns.
C14_RefreshInEveryOtherCase ==
    last.op = "GetValidJWTToken" =>
        IF Cached # EmptyToken /\ ~CachedExpiry.expired
        THEN last.out.ok /\ last.out.token = Cached /\ ~last.out.refreshed
        ELSE /\ last.out.refreshed
             /\ last.out.ok = RefreshToken(last.before, last.reply).ok
             /\ last.out.token = RefreshToken(last.before, last.reply).token

\* C14 as amended: the cached token is returned if present and not expired;
\* refresh is invoked, and its result returned, only when the cached token
\* decodes and is expired; with no cached token, or one that cannot be
\* decoded, the call fails without invoking refresh.
C14_RefreshOnlyWhenExpired ==
    last.op = "GetValidJWTToken" =>
        IF Cached = EmptyToken \/ CachedExpiry.err # ""
        THEN /\ ~last.out.ok /\ ~last.out.refreshed
             /\ last.out.requests = 0 /\ file = last.before
        ELSE IF ~CachedExpiry.expired
        THEN last.out.ok /\ last.out.token = Cached /\ ~last.out.refreshed
        ELSE /\ last.out.refreshed
             /\ last.out.ok = RefreshToken(last.before, last.reply).ok
             /\ last.out.token = RefreshToken(last.before, last.reply).token

\* a cached token that cannot be decoded made the call fail, refresh not run
C14_Witness ==
    /\ last.op = "GetValidJWTToken"
    /\ Cached # EmptyToken /\ CachedExpiry.err # ""
    /\ ~last.before.auth_config.nil
    /\ ~last.out.ok /\ ~last.out.refreshed

\* the token endpoint was asked and answered 200 with a JSON body
Answered200(reply) ==
    reply.kind = "http" /\ reply.status = 200 /\ reply.body = "json"

C16_NoCredentials ==
    (last.op \in AuthOps /\ last.out.refreshed /\ last.before.auth_config.nil) =>
        /\ ~last.out.ok
        /\ NoCredentials
        /\ last.out.requests = 0
        /\ last.reply = NoReply
        /\ file = last.before

\* an expired token without credentials: GetValidJWTToken ran refresh, which
\* failed
C16_Witness ==
    /\ last.op = "GetValidJWTToken" /\ last.out.refreshed
    /\ last.before.auth_config.nil
    /\ Cached # EmptyToken /\ file.jwt_token = Cached
    /\ NoCredentials

\* C17: one GetValidJWTToken sends at most one request to the token
\* endpoint; when that request fails (transport error or a status other
\* than 200) it returns an authentication error, carrying the response body
\* if there is one, and sends no second request.
C17_RefreshOnce ==
    last.op = "GetValidJWTToken" =>
        /\ last.out.requests <= 1
        /\ (last.reply.kind = "transport"
               \/ (last.reply.kind = "http" /\ last.reply.status # 200)) =>
              /\ ~last.out.ok
              /\ last.out.err = "refresh token"
              /\ last.out.cause = "authenticate"
              /\ last.out.body = last.reply.body
              /\ last.out.requests = 1

\* the endpoint answered 401 and the error carries its body
C17_Witness ==
    /\ last.op = "GetValidJWTToken"
    /\ last.reply.kind = "http" /\ last.reply.status = 401
    /\ ~last.out.ok /\ last.out.body = "denied" /\ last.out.requests = 1

\* C18: after any sequence of GetValidJWTToken and RefreshToken calls the
\* stored credential set and server URL are what the last explicit
\* authentication stored; refresh changes only the stored token.
C18_CredentialsKept ==
    /\ Stored(file) = lastAuth
    /\ last.op \in AuthOps => file = [last.before EXCEPT !.jwt_token = file.jwt_token]

\* a refresh stored a new token beside the credentials
C18_Witness ==
    /\ last.op \in AuthOps /\ last.out.ok /\ last.out.refreshed
    /\ file.jwt_token # Cached
    /\ ~file.auth_config.nil /\ file.server # ""
    /\ Stored(file) = lastAuth

\* C19: every authenticated call, of the workflow orchestrator and of the
\* API client, carries a token that is not expired (by IsTokenExpired) at
\* the moment the call is issued.
C19_CallsCarryLiveToken ==
    last.sent.issued => ~IsTokenExpired(last.sent.token, last.at).expired

----------------------------------------------------------------------------
(* Properties of the commands' remote calls, checked under SpecCmd         *)

\* the ways digit.GetJWTToken fails: a credential field is empty, no answer,
\* a status other than 200, a body that is no JSON
TokenCallFailures ==
    {"empty parameter", "token request", "get token", "parse token response"}

FailedRefresh ==
    /\ last.op \in AuthOps
    /\ last.out.refreshed
    /\ ~last.out.ok
    /\ ~last.before.auth_config.nil
    /\ DigitGetJWTToken(last.before.auth_config, last.reply).err \in TokenCallFailures

\* C27: a refresh whose token call fails (no answer, a status other than
\* 200, a body that cannot be parsed, or stored credentials with an empty
\* field) leaves the stored token, credential set and server URL as they
\* were before the call, and the expired token that made GetValidJWTToken
\* refresh is still the stored one.
C27_FailedRefreshKeepsFile ==
    FailedRefresh =>
        /\ file.jwt_token = last.before.jwt_token
        /\ file.auth_config = last.before.auth_config
        /\ file.server = last.before.server
        /\ last.op # "RefreshToken" =>
              /\ file.jwt_token # EmptyToken
              /\ IsTokenExpired(file.jwt_token, last.at).expired

\* the endpoint answered 200 with a body that is no JSON; the stale token
\* is still on file
C27_Witness ==
    /\ FailedRefresh
    /\ last.op = "GetValidJWTToken"
    /\ last.out.cause = "authenticate"
    /\ last.reply = Http(200, "not json", EmptyToken)
    /\ file.jwt_token = StaleTok

\* C28: a refresh that reports success leaves a non-empty token: whenever
\* RefreshToken (alone or under GetValidJWTToken) returns without error, the
\* token returned and the token stored are the same non-empty string,
\* whatever the 200 answer of the token endpoint holds.
C28_RefreshedTokenNonEmpty ==
    (last.op \in AuthOps /\ last.out.refreshed /\ last.out.ok) =>
        /\ last.out.token # EmptyToken
        /\ file.jwt_token = last.out.token

\* C22: no silent failure: for every remote call made through the client
\* library (account creation and process, state and action creation), a
\* transport failure or a status outside 2xx ends the command with an error
\* and the response body is not printed as a successful response.
C22_NoSilentFailure ==
    (last.issued /\ (last.resp.transport \/ ~StatusOK(last.resp.status))) =>
        ~last.ok /\ ~last.printed

----------------------------------------------------------------------------
(* Properties of concurrent invocations, checked under SpecRace            *)

SetterDone(p) == procs[p].pc = "done" /\ procs[p].prog \in Setters

\* the file holds the field as the setter of p set it
HasUpdate(p) ==
    LET pr == procs[p]
    IN  IF pr.prog = "SetServerURL" THEN file.server = pr.server
        ELSE IF pr.prog = "SetJWTToken" THEN file.jwt_token = pr.tok
        ELSE file.auth_config = pr.auth

\* C23: the setters are uncoordinated whole-file read-modify-writes: two
\* setters of different fields run one after the other leave both updates
\* in the file, while an interleaving of the two exists after which the
\* update of one is lost (the witness).
C23_SequentialKeepsBoth ==
    ( /\ \A p \in Procs : SetterDone(p) /\ ~procs[p].overlapped
      /\ procs["p"].prog # procs["q"].prog ) =>
        \A p \in Procs : HasUpdate(p)

\* both setters have saved and the file lacks the update of one of them
C23_Witness ==
    /\ \A p \in Procs : SetterDone(p)
    /\ procs["p"].prog # procs["q"].prog
    /\ \E p \in Procs : ~HasUpdate(p) /\ HasUpdate(Other(p))

GetValidDone(p) ==
    procs[p].pc = "done" /\ procs[p].prog = "GetValidJWTToken"

Complete(a) ==
    /\ ~a.nil
    /\ a.server_url # "" /\ a.realm # "" /\ a.client_id # ""
    /\ a.client_secret # "" /\ a.username # "" /\ a.password # ""

\* C24: refresh is not single-flight: two concurrent GetValidJWTToken calls
\* that both find the cached token expired each send their own request to
\* the token endpoint, and the token on file at the end is the one of the
\* call that saved last.
C24_NotSingleFlight ==
    ( /\ \A p \in Procs : GetValidDone(p) /\ procs[p].detected
      /\ Complete(file.auth_config) ) =>
        /\ \A p \in Procs : procs[p].requests = 1
        /\ \A p \in Procs :
              (procs[p].saved > 0 /\ procs[p].saved = Saves) =>
                  file.jwt_token = procs[p].tok

\* two requests for one expiry, two different tokens, the later save on file
C24_Witness ==
    /\ \A p \in Procs : /\ GetValidDone(p) /\ procs[p].detected
                        /\ procs[p].requests = 1 /\ procs[p].ok
    /\ \E p \in Procs : /\ procs[p].saved = 2
                        /\ file.jwt_token = procs[p].tok
                        /\ procs[Other(p)].tok # procs[p].tok

\* the errors with which config set ends before or at one of its writes
AuthOrWriteErrors ==
    {"authenticate", "set server URL", "set JWT token", "store auth config"}

\* C29: explicit authentication is all-or-nothing on the file: when the
\* token call fails the file is as it was, and whenever config set or
\* use-context has ended, with success or with the error of one of its
\* three writes, the stored server URL, token and credential set are either
\* all those of before the command or all those of this authentication.
C29_AllOrNothing ==
    last.op = "ConfigSet" =>
        /\ last.out.err = "authenticate" => file = last.before
        /\ \/ file = last.before
           \/ \E a \in Creds :
                 /\ DigitGetJWTToken(a, last.reply).ok
                 /\ file = [server |-> a.server_url,
                            jwt_token |-> last.reply.token,
                            auth_config |-> a]

\* C30: config set and use-context end in success whenever the
\* authentication and the three writes succeed, whatever token the endpoint
\* returned: printing the first 50 characters of the token never fails.
C30_PrintNeverFails ==
    (last.op = "ConfigSet" /\ last.out.err \notin AuthOrWriteErrors) => last.out.ok

====
